---- MODULE Spec2Model ----
(***************************************************************************)
(* Model of the hotel list view (HotelList.tsx): the filter schema, the    *)
(* URL codec, and the fetch cycle driven by the search-params effect.      *)
(*                                                                         *)
(* JavaScript values are records tagged by k.  A finite number is kept in  *)
(* tenths (v = 45 stands for 4.5), which covers the step="0.1" rating      *)
(* input; NaN, the infinities and undefined are separate tags.  A string   *)
(* is a sequence of one-character strings, so that String(n) and Number(s) *)
(* are computed digit by digit.                                            *)
(***************************************************************************)
EXTENDS Integers, Sequences, FiniteSets, TLC

\* ------------------------------------------------------------------ bounds
MaxReqs == 2

\* ------------------------------------------------------------ JS values
Undef == [k |-> "undefined"]
NaN == [k |-> "nan"]
PosInf == [k |-> "inf", v |-> 1]
NegInf == [k |-> "inf", v |-> -1]
Fin(t) == [k |-> "num", v |-> t]
Str(s) == [k |-> "str", s |-> s]

\* null of a string | null state slot (error, apiError) and of a JS value
Null == "<null>"
JSNull == [k |-> "null"]

Fields == <<"rating", "priceMin", "priceMax">>
FieldSet == {"rating", "priceMin", "priceMax"}

IsNumberType(x) == x.k \in {"num", "nan", "inf"}

\* JS truthiness of undefined / number values (0 and NaN are falsy)
Truthy(x) ==
  CASE x.k = "num" -> x.v # 0
    [] x.k = "inf" -> TRUE
    [] x.k = "str" -> x.s # <<>>
    [] OTHER -> FALSE

\* a < b on JS numbers; any comparison with NaN or undefined is false
Lt(a, b) ==
  CASE a.k = "num" /\ b.k = "num" -> a.v < b.v
    [] a.k = "num" /\ b.k = "inf" -> b.v > 0
    [] a.k = "inf" /\ b.k = "num" -> a.v < 0
    [] a.k = "inf" /\ b.k = "inf" -> a.v < b.v
    [] OTHER -> FALSE

Gt(a, b) == Lt(b, a)

Le(a, b) ==
  /\ IsNumberType(a) /\ IsNumberType(b)
  /\ a.k # "nan" /\ b.k # "nan"
  /\ (Lt(a, b) \/ a = b)

\* --------------------------------------------------- String(n), Number(s)
DigitChars == <<"0", "1", "2", "3", "4", "5", "6", "7", "8", "9">>
IsDigit(c) == \E i \in 1..10 : DigitChars[i] = c
DigitVal(c) == (CHOOSE i \in 1..10 : DigitChars[i] = c) - 1

RECURSIVE NatToStr(_)
NatToStr(n) ==
  IF n < 10 THEN <<DigitChars[n + 1]>>
  ELSE NatToStr(n \div 10) \o <<DigitChars[(n % 10) + 1]>>

InfinityChars == <<"I", "n", "f", "i", "n", "i", "t", "y">>

\* String(x) of line 95 / 141-145, for a number value x
NumberToString(x) ==
  CASE x.k = "nan" -> <<"N", "a", "N">>
    [] x.k = "inf" -> IF x.v < 0 THEN <<"-">> \o InfinityChars ELSE InfinityChars
    [] x.k = "num" ->
        LET a == IF x.v < 0 THEN -x.v ELSE x.v
            sign == IF x.v < 0 THEN <<"-">> ELSE <<>>
            frac == IF a % 10 = 0 THEN <<>> ELSE <<".", DigitChars[(a % 10) + 1]>>
        IN sign \o NatToStr(a \div 10) \o frac

AllDigits(s) == \A i \in 1..Len(s) : IsDigit(s[i])

RECURSIVE DigitsVal(_)
DigitsVal(s) ==
  IF s = <<>> THEN 0
  ELSE DigitsVal(SubSeq(s, 1, Len(s) - 1)) * 10 + DigitVal(s[Len(s)])

RECURSIVE Trim(_)
Trim(s) ==
  IF s = <<>> THEN s
  ELSE IF s[1] = " " THEN Trim(Tail(s))
  ELSE IF s[Len(s)] = " " THEN Trim(SubSeq(s, 1, Len(s) - 1))
  ELSE s

\* Unsigned numeric literal: digits, optionally "." and at most one more
\* digit (the model keeps tenths), or the word Infinity; anything else NaN.
ParseUnsigned(s) ==
  IF s = InfinityChars THEN PosInf
  ELSE LET dots == {i \in 1..Len(s) : s[i] = "."}
       IN IF dots = {} THEN
            IF Len(s) > 0 /\ AllDigits(s) THEN Fin(10 * DigitsVal(s)) ELSE NaN
          ELSE IF Cardinality(dots) > 1 THEN NaN
          ELSE LET p == CHOOSE i \in dots : TRUE
                   ip == SubSeq(s, 1, p - 1)
                   fp == SubSeq(s, p + 1, Len(s))
               IN IF AllDigits(ip) /\ AllDigits(fp) /\ Len(fp) <= 1
                     /\ Len(ip) + Len(fp) >= 1
                  THEN Fin(10 * DigitsVal(ip) + DigitsVal(fp))
                  ELSE NaN

Negate(x) ==
  CASE x.k = "num" -> Fin(-x.v)
    [] x.k = "inf" -> [k |-> "inf", v |-> -x.v]
    [] OTHER -> x

\* Number(s) for a string s: whitespace is trimmed, "" is 0
StringToNumber(s) ==
  LET t == Trim(s)
  IN IF t = <<>> THEN Fin(0)
     ELSE IF t[1] = "-" THEN Negate(ParseUnsigned(Tail(t)))
     ELSE IF t[1] = "+" THEN ParseUnsigned(Tail(t))
     ELSE ParseUnsigned(t)

\* Number(x) as applied by z.coerce.number() to a defined form value
ToNumber(x) == IF x.k = "str" THEN StringToNumber(x.s) ELSE x

\* ------------------------------------------------------- URLSearchParams
\* A query is the ordered list of <<key, value>> pairs of a URLSearchParams.
SPGet(sp, key) ==
  LET idx == {i \in 1..Len(sp) : sp[i][1] = key}
  IN IF idx = {} THEN JSNull
     ELSE Str(sp[CHOOSE i \in idx : \A j \in idx : i <= j][2])

RECURSIVE SPDelete(_, _)
SPDelete(sp, key) ==
  IF sp = <<>> THEN <<>>
  ELSE IF sp[1][1] = key THEN SPDelete(Tail(sp), key)
  ELSE <<sp[1]>> \o SPDelete(Tail(sp), key)

SPSet(sp, key, val) ==
  LET idx == {i \in 1..Len(sp) : sp[i][1] = key}
  IN IF idx = {} THEN Append(sp, <<key, val>>)
     ELSE LET f == CHOOSE i \in idx : \A j \in idx : i <= j
          IN SubSeq(sp, 1, f - 1) \o <<<<key, val>>>>
               \o SPDelete(SubSeq(sp, f + 1, Len(sp)), key)

SPAppend(sp, key, val) == Append(sp, <<key, val>>)

\* ------------------------------------------------------------- URL codec
\* a plausible slip: "n ? n : undefined" also drops the value 0
readNumFalsy(v) ==
  IF v.k = "null" \/ v.s = <<>> THEN Undef
  ELSE LET n == StringToNumber(v.s)
       IN IF n.k = "num" /\ n.v # 0 THEN n ELSE Undef

\* a plausible slip: Number.isNaN in place of Number.isFinite
readNumNotNaN(v) ==
  IF v.k = "null" \/ v.s = <<>> THEN Undef
  ELSE LET n == StringToNumber(v.s)
       IN IF n.k # "nan" THEN n ELSE Undef

readNum(v) ==
  IF v.k = "null" \/ v.s = <<>> THEN Undef
  ELSE LET n == StringToNumber(v.s)
       IN IF n.k = "num" THEN n ELSE Undef

filtersFromParams(sp) ==
  [f \in FieldSet |-> readNum(SPGet(sp, f))]

RECURSIVE EncodeKeys(_, _, _)
EncodeKeys(next, filters, i) ==
  IF i > Len(Fields) THEN next
  ELSE LET k == Fields[i]
           v == filters[k]
       IN EncodeKeys(IF IsNumberType(v) /\ v.k # "nan"
                       THEN SPSet(next, k, NumberToString(v))
                       ELSE SPDelete(next, k),
                     filters, i + 1)

\* a plausible slip: starting from an empty URLSearchParams instead of a copy
buildQueryFromEmpty(cur, filters) == EncodeKeys(<<>>, filters, 1)

buildQueryFromFilters(cur, filters) == EncodeKeys(cur, filters, 1)

\* --------------------------------------------------------- filterSchema
\* One field: z.preprocess("" -> undefined, z.coerce.number()<checks>.optional()).
\* st is "valid", "dirty" (a failed min/max check; the value is still
\* produced) or "aborted" (invalid_type: Number(v) is NaN).
FieldParse(raw, hasMax, max) ==
  LET v == IF raw.k = "str" /\ raw.s = <<>> THEN Undef ELSE raw
  IN IF v.k = "undefined" THEN [st |-> "valid", val |-> Undef, issue |-> ""]
     ELSE LET n == ToNumber(v)
          IN IF n.k = "nan" THEN [st |-> "aborted", val |-> Undef, issue |-> "invalid_type"]
             ELSE IF Lt(n, Fin(0)) THEN [st |-> "dirty", val |-> n, issue |-> "too_small"]
             ELSE IF hasMax /\ Gt(n, Fin(max)) THEN [st |-> "dirty", val |-> n, issue |-> "too_big"]
             ELSE [st |-> "valid", val |-> n, issue |-> ""]

CrossFieldMessage == "priceMin cannot be greater than priceMax."

\* the refinement of line 51
CrossFieldRule(v) ==
  ~(Truthy(v.priceMin) /\ Truthy(v.priceMax)) \/ Le(v.priceMin, v.priceMax)

\* filterSchema.safeParse(raw) as seen through zodResolver: ok, the parsed
\* data, and per field the message of its first issue ("" when none).  The
\* object refinement runs unless a field aborted.
filterSchema(raw) ==
  LET r == [f \in FieldSet |->
              IF f = "rating" THEN FieldParse(raw[f], TRUE, 50)
              ELSE FieldParse(raw[f], FALSE, 0)]
      aborted == \E f \in FieldSet : r[f].st = "aborted"
      data == [f \in FieldSet |-> r[f].val]
      cross == ~aborted /\ ~CrossFieldRule(data)
      errs == [f \in FieldSet |->
                 IF r[f].issue # "" THEN r[f].issue
                 ELSE IF f = "priceMax" /\ cross THEN CrossFieldMessage
                 ELSE ""]
  IN [ok |-> \A f \in FieldSet : errs[f] = "", data |-> data, errors |-> errs]

\* ------------------------------------------------------------ view state
VARIABLES
  mounted,       \* "no" before the first effect, "yes", "gone" after unmount
  url,           \* query of the browser location (router.replace target)
  searchParams,  \* the query the last effect run saw (useSearchParams)
  formValues,    \* react-hook-form field values
  formErrors,    \* react-hook-form field errors, "" = none
  formTouched,   \* handleSubmit wrote the field errors since the last fetchHotels
  hotels, loading, error, apiError,
  abortRef,      \* 0 = null, else the index in reqs of the controller's request
  reqs           \* every fetch() issued so far, in issue order

viewVars == <<mounted, url, searchParams, formValues, formErrors, formTouched,
              hotels, loading, error, apiError, abortRef, reqs>>

NoErrors == [f \in FieldSet |-> ""]
NoValues == [f \in FieldSet |-> Undef]

\* ------------------------------------------------------ server responses
NoFE == [f \in FieldSet |-> <<>>]
BodyNull == [kind |-> "null", items |-> <<>>, error |-> Null, hasFE |-> FALSE, fe |-> NoFE]
BodyUnparseable == [kind |-> "unparseable", items |-> <<>>, error |-> Null, hasFE |-> FALSE, fe |-> NoFE]
BodyArray(items) == [kind |-> "array", items |-> items, error |-> Null, hasFE |-> FALSE, fe |-> NoFE]
BodyObject(err, hasFE, fe) == [kind |-> "object", items |-> <<>>, error |-> err, hasFE |-> hasFE, fe |-> fe]

\* one element of a response array; shape = it satisfies hotelSchema
Item(r, n, shape) == [src |-> r, n |-> n, shape |-> shape]

RatingMessage == "Rating must be a number between 0 and 5."
ServerMessage == "Something went wrong while fetching hotels."

\* what the network may answer to request r
Responses(r) ==
  { [status |-> 200, body |-> BodyArray(<<Item(r, 1, TRUE), Item(r, 2, TRUE)>>)],
    [status |-> 200, body |-> BodyArray(<<>>)],
    [status |-> 200, body |-> BodyArray(<<Item(r, 1, TRUE), Item(r, 2, FALSE)>>)],
    [status |-> 200, body |-> BodyObject(Null, FALSE, NoFE)],
    [status |-> 200, body |-> BodyUnparseable],
    [status |-> 400, body |-> BodyObject(CrossFieldMessage, FALSE, NoFE)],
    [status |-> 400, body |-> BodyObject(RatingMessage, FALSE, NoFE)],
    [status |-> 422, body |-> BodyObject("Validation failed", TRUE,
                                [NoFE EXCEPT !["rating"] = <<"too big", "second">>,
                                             !["priceMax"] = <<"bad max">>])],
    [status |-> 422, body |-> BodyObject("Validation failed", TRUE, NoFE)],
    [status |-> 500, body |-> BodyObject(ServerMessage, FALSE, NoFE)],
    [status |-> 500, body |-> BodyUnparseable] }

IsOk(status) == status >= 200 /\ status <= 299

\* data.error.toLowerCase().includes("pricemin cannot be greater"), over the
\* error strings of Responses
IncludesCrossField(msg) == msg \in {CrossFieldMessage}

HttpMessage(status) ==
  CASE status = 400 -> "Request failed (HTTP 400)"
    [] status = 422 -> "Request failed (HTTP 422)"
    [] status = 500 -> "Request failed (HTTP 500)"
    [] OTHER -> "Request failed (HTTP ?)"

InvalidShapeMessage == "Invalid response shape from /api/hotels"
FailedToFetch == "Failed to fetch"

\* a plausible slip: z.array(z.any()) in place of z.array(hotelSchema)
ShapeOkArrayOnly(data) == data.kind = "array"

\* hotelsResponseSchema.safeParse(data).success
ShapeOk(data) ==
  data.kind = "array" /\ \A i \in 1..Len(data.items) : data.items[i].shape

\* --------------------------------------------------- the fetch cycle
\* The rendered state a request handler writes to.
Display == [hotels |-> hotels, loading |-> loading, error |-> error,
            apiError |-> apiError, formErrors |-> formErrors]

\* buildUrl: the query of the outbound request
buildUrl(filters) ==
  LET p1 == IF IsNumberType(filters.rating)
              THEN SPAppend(<<>>, "rating", NumberToString(filters.rating)) ELSE <<>>
      p2 == IF IsNumberType(filters.priceMin)
              THEN SPAppend(p1, "priceMin", NumberToString(filters.priceMin)) ELSE p1
  IN IF IsNumberType(filters.priceMax)
       THEN SPAppend(p2, "priceMax", NumberToString(filters.priceMax)) ELSE p2

NewRequest(filters) ==
  [filters |-> filters, query |-> buildUrl(filters), aborted |-> FALSE,
   phase |-> "fetch", status |-> 0, body |-> BodyNull, netfail |-> FALSE]

\* a handler that returned keeps nothing of its request or response
Retired == [filters |-> NoValues, query |-> <<>>, aborted |-> FALSE,
            phase |-> "done", status |-> 0, body |-> BodyNull, netfail |-> FALSE]

\* a plausible slip: the ref is cleared but the controller is never aborted
cancelPendingNoAbort(rs, ref) == [reqs |-> rs, abortRef |-> 0]

\* cancelPending: abort the controller in abortRef, then clear the ref
cancelPending(rs, ref) ==
  IF ref # 0 THEN [reqs |-> [rs EXCEPT ![ref].aborted = TRUE], abortRef |-> 0]
  ELSE [reqs |-> rs, abortRef |-> ref]

\* a plausible slip: setLoading(true) without the three resets before it
fetchHotelsStartNoReset(d, rs, ref, filters) ==
  LET c == cancelPending(rs, ref)
      kept == [i \in 1..Len(c.reqs) |->
                 IF c.reqs[i].phase = "done" THEN Retired ELSE c.reqs[i]]
  IN [d |-> [d EXCEPT !.loading = TRUE],
      reqs |-> Append(kept, NewRequest(filters)),
      abortRef |-> Len(rs) + 1]

\* fetchHotels up to its first await: the state resets, cancelPending, the
\* new controller in abortRef, and the fetch() call
fetchHotelsStart(d, rs, ref, filters) ==
  LET c == cancelPending(rs, ref)
      kept == [i \in 1..Len(c.reqs) |->
                 IF c.reqs[i].phase = "done" THEN Retired ELSE c.reqs[i]]
  IN [d |-> [d EXCEPT !.loading = TRUE, !.error = Null, !.apiError = Null,
                      !.formErrors = NoErrors],
      reqs |-> Append(kept, NewRequest(filters)),
      abortRef |-> Len(rs) + 1]

\* res.json() inside its own try/catch: null when the body does not parse
JsonData(body) == IF body.kind = "unparseable" THEN BodyNull ELSE body

\* a plausible slip: the last message of a field in place of the first
ApplyFieldErrorsLast(fe, errs) ==
  [f \in FieldSet |-> IF fe[f] # <<>> /\ fe[f][Len(fe[f])] # ""
                        THEN fe[f][Len(fe[f])] ELSE errs[f]]

\* the 422 branch: setError(key, fe[key][0]) for each key with a message
ApplyFieldErrors(fe, errs) ==
  [f \in FieldSet |-> IF fe[f] # <<>> /\ fe[f][1] # "" THEN fe[f][1] ELSE errs[f]]

\* fetchHotels from the line after res.json() to the end of the finally block
AfterResponse(d, status, data) ==
  IF ~IsOk(status) THEN
    IF status = 422 /\ data.hasFE THEN
      [d EXCEPT !.formErrors = ApplyFieldErrors(data.fe, d.formErrors),
                !.hotels = <<>>, !.loading = FALSE]
    ELSE IF data.error # Null THEN
      IF IncludesCrossField(data.error) THEN
        [d EXCEPT !.formErrors = [d.formErrors EXCEPT !["priceMax"] = data.error],
                  !.hotels = <<>>, !.loading = FALSE]
      ELSE [d EXCEPT !.apiError = data.error, !.hotels = <<>>, !.loading = FALSE]
    ELSE [d EXCEPT !.apiError = HttpMessage(status), !.hotels = <<>>, !.loading = FALSE]
  ELSE IF ShapeOk(data) THEN [d EXCEPT !.hotels = data.items, !.loading = FALSE]
  ELSE [d EXCEPT !.error = InvalidShapeMessage, !.hotels = <<>>, !.loading = FALSE]

\* fetch() rejected with a non-abort error: catch, then finally
AfterNetworkFailure(d) ==
  [d EXCEPT !.error = FailedToFetch, !.hotels = <<>>, !.loading = FALSE]

\* a plausible slip: setLoading(false) at the end of the try block and of the
\* catch, not in a finally, so that the AbortError return skips it
AfterAbortedFetchNoFinally(d) == d

\* fetch() rejected with AbortError: the catch returns, the finally still runs
AfterAbortedFetch(d) == [d EXCEPT !.loading = FALSE]

SetDisplay(d) ==
  /\ hotels' = d.hotels
  /\ loading' = d.loading
  /\ error' = d.error
  /\ apiError' = d.apiError
  /\ formErrors' = d.formErrors

\* An abort rejects the pending promise of the aborted request; its handler
\* resumes as a microtask, before any other task of the event loop.
MicrotaskPending == \E r \in 1..Len(reqs) : reqs[r].aborted /\ reqs[r].phase # "done"

\* ------------------------------------------- pure functions, applied
VARIABLES
  cRaw,      \* raw form values handed to filterSchema
  cF,        \* a FilterSet handed to buildQueryFromFilters
  cCur,      \* the current query handed to buildQueryFromFilters
  cValid,    \* <<>> or <<filterSchema(cRaw)>>
  cQuery,    \* <<>> or <<buildQueryFromFilters(cCur, cF)>>
  cDecoded,  \* <<>> or <<filtersFromParams(cQuery[1])>>
  qF,        \* a FilterSet handed to buildUrl
  qQuery,    \* a query handed to filtersFromParams and to the GET handler
  qUrl,      \* <<>> or <<buildUrl(qF)>>
  qDecoded,  \* <<>> or <<filtersFromParams(qQuery)>>
  qResp      \* <<>> or <<GET(qQuery, dbOk)>>

requestVars == <<qF, qQuery, qUrl, qDecoded, qResp>>

\* the register page
VARIABLES
  regPath,       \* "/register", or "/login" once the redirect timer has fired
  regFormError,  \* the confirmPassword field error, "" = none
  regApiError, regApiSuccess, regLoading,
  regDisabled,   \* the disabled attribute of the submit button as last committed
  regAbortRef,   \* 0 = null, else the index in regReqs of the controller's request
  regReqs,       \* every fetch() issued so far, in issue order
  regTimers      \* redirect timers scheduled and not yet fired

registerVars == <<regPath, regFormError, regApiError, regApiSuccess, regLoading,
                  regDisabled, regAbortRef, regReqs, regTimers>>

\* the register page as first rendered
RegIdle ==
  /\ regPath = "/register" /\ regFormError = ""
  /\ regApiError = Null /\ regApiSuccess = Null /\ regLoading = FALSE
  /\ regDisabled = FALSE /\ regAbortRef = 0 /\ regReqs = <<>> /\ regTimers = 0

codecVars == <<cRaw, cF, cCur, cValid, cQuery, cDecoded, requestVars, registerVars>>
vars == <<viewVars, codecVars>>

\* ----------------------------------------------------------- input sets
S0 == <<"0">>
S3 == <<"3">>
S5 == <<"5">>
S7 == <<"7">>
S45 == <<"4", ".", "5">>
S100 == <<"1", "0", "0">>
S300 == <<"3", "0", "0">>
SNeg1 == <<"-", "1">>
SAbc == <<"a", "b", "c">>

Raw(r, lo, hi) == [rating |-> Str(r), priceMin |-> Str(lo), priceMax |-> Str(hi)]

\* what the user types in the view
FormInputs ==
  { Raw(<<>>, <<>>, <<>>), Raw(S5, <<>>, <<>>), Raw(<<>>, S5, S0),
    Raw(S7, <<>>, <<>>) }

\* queries the view is opened with
Queries ==
  { <<>>,
    << <<"page", <<"2">> >>, <<"rating", S3>> >>,
    << <<"priceMin", S300>>, <<"sort", <<"a">> >>, <<"priceMax", S100>> >> }

\* ---------------------------------------------------------------- view
Init ==
  /\ mounted = "no"
  /\ url \in Queries
  /\ searchParams = url
  /\ formValues = NoValues
  /\ formErrors = NoErrors
  /\ formTouched = FALSE
  /\ hotels = <<>>
  /\ loading = TRUE
  /\ error = Null
  /\ apiError = Null
  /\ abortRef = 0
  /\ reqs = <<>>
  /\ cRaw = NoValues /\ cF = NoValues /\ cCur = <<>>
  /\ cValid = <<>> /\ cQuery = <<>> /\ cDecoded = <<>>
  /\ qF = NoValues /\ qQuery = <<>>
  /\ qUrl = <<>> /\ qDecoded = <<>> /\ qResp = <<>>
  /\ RegIdle

\* a plausible slip: the effect fetches but leaves the form as it is
EffectBodyNoReset(rs, ref) ==
  \E f \in {filtersFromParams(url)} :
    \E i \in {fetchHotelsStart(Display, rs, ref, f)} :
      /\ searchParams' = url
      /\ formValues' = formValues
      /\ formTouched' = FALSE
      /\ SetDisplay(i.d)
      /\ reqs' = i.reqs
      /\ abortRef' = i.abortRef

\* the body of the search-params effect: decode, form.reset, fetchHotels
EffectBody(rs, ref) ==
  \E f \in {filtersFromParams(url)} :
    \E i \in {fetchHotelsStart(Display, rs, ref, f)} :
      /\ searchParams' = url
      /\ formValues' = f
      /\ formTouched' = FALSE
      /\ SetDisplay(i.d)
      /\ reqs' = i.reqs
      /\ abortRef' = i.abortRef

\* first run of the effect after the first render
Mount ==
  /\ mounted = "no"
  /\ mounted' = "yes"
  /\ EffectBody(reqs, abortRef)
  /\ UNCHANGED <<url, codecVars>>

\* searchParams changed: the cleanup of the previous run, then the effect
UrlEffect ==
  /\ mounted = "yes" /\ ~MicrotaskPending
  /\ searchParams # url
  /\ Len(reqs) < MaxReqs
  /\ LET c == cancelPending(reqs, abortRef) IN EffectBody(c.reqs, c.abortRef)
  /\ UNCHANGED <<mounted, url, codecVars>>

\* the view goes away: only the cleanup runs
Unmount ==
  /\ mounted = "yes" /\ ~MicrotaskPending
  /\ mounted' = "gone"
  /\ LET c == cancelPending(reqs, abortRef)
     IN reqs' = c.reqs /\ abortRef' = c.abortRef
  /\ UNCHANGED <<url, searchParams, formValues, formErrors, formTouched,
                 hotels, loading, error, apiError, codecVars>>

\* the user edits the filter inputs
Edit(v) ==
  /\ mounted = "yes" /\ ~MicrotaskPending
  /\ Len(reqs) < MaxReqs
  /\ formValues # v
  /\ formValues' = v
  /\ UNCHANGED <<mounted, url, searchParams, formErrors, formTouched,
                 hotels, loading, error, apiError, abortRef, reqs, codecVars>>

\* a plausible slip: onSubmit is called whatever the validation said
SubmitNoValidation ==
  /\ mounted = "yes" /\ ~MicrotaskPending
  /\ Len(reqs) < MaxReqs
  /\ LET r == filterSchema(formValues)
     IN /\ formErrors' = r.errors
        /\ url' = buildQueryFromFilters(searchParams, r.data)
  /\ formTouched' = TRUE
  /\ UNCHANGED <<mounted, searchParams, formValues, hotels, loading, error,
                 apiError, abortRef, reqs, codecVars>>

\* form.handleSubmit(onSubmit): validate, then onSubmit replaces the URL
Submit ==
  /\ mounted = "yes" /\ ~MicrotaskPending
  /\ Len(reqs) < MaxReqs
  /\ LET r == filterSchema(formValues)
     IN /\ formErrors' = r.errors
        /\ url' = IF r.ok THEN buildQueryFromFilters(searchParams, r.data) ELSE url
  /\ formTouched' = TRUE
  /\ UNCHANGED <<mounted, searchParams, formValues, hotels, loading, error,
                 apiError, abortRef, reqs, codecVars>>

Live(r) == reqs[r].phase # "done" /\ ~reqs[r].aborted

\* fetch() resolves: the status line and headers are in, res.json() is awaited
ResponseHead(r, resp) ==
  /\ ~MicrotaskPending
  /\ reqs[r].phase = "fetch" /\ Live(r)
  /\ reqs' = [reqs EXCEPT ![r].phase = "body", ![r].status = resp.status,
                          ![r].body = resp.body]
  /\ UNCHANGED <<mounted, url, searchParams, formValues, formErrors, formTouched,
                 hotels, loading, error, apiError, abortRef, codecVars>>

\* res.json() settles and the handler runs to its end
BodyRead(r) ==
  /\ ~MicrotaskPending
  /\ reqs[r].phase = "body" /\ Live(r)
  /\ SetDisplay(AfterResponse(Display, reqs[r].status, JsonData(reqs[r].body)))
  /\ reqs' = [reqs EXCEPT ![r].phase = "done"]
  /\ UNCHANGED <<mounted, url, searchParams, formValues, formTouched, abortRef,
                 codecVars>>

\* fetch() rejects (network down)
NetworkFailure(r) ==
  /\ ~MicrotaskPending
  /\ reqs[r].phase = "fetch" /\ Live(r)
  /\ SetDisplay(AfterNetworkFailure(Display))
  /\ reqs' = [reqs EXCEPT ![r].phase = "done", ![r].netfail = TRUE]
  /\ UNCHANGED <<mounted, url, searchParams, formValues, formTouched, abortRef,
                 codecVars>>

\* the handler of a request aborted while fetch() was pending
AbortedFetch(r) ==
  /\ reqs[r].aborted /\ reqs[r].phase = "fetch"
  /\ SetDisplay(AfterAbortedFetch(Display))
  /\ reqs' = [reqs EXCEPT ![r].phase = "done"]
  /\ UNCHANGED <<mounted, url, searchParams, formValues, formTouched, abortRef,
                 codecVars>>

\* the handler of a request aborted while res.json() was pending: json()
\* rejects, the inner catch sets data = null, and the handler goes on
AbortedBody(r) ==
  /\ reqs[r].aborted /\ reqs[r].phase = "body"
  /\ SetDisplay(AfterResponse(Display, reqs[r].status, BodyNull))
  /\ reqs' = [reqs EXCEPT ![r].phase = "done"]
  /\ UNCHANGED <<mounted, url, searchParams, formValues, formTouched, abortRef,
                 codecVars>>

Next ==
  \/ Mount
  \/ UrlEffect
  \/ Unmount
  \/ \E v \in FormInputs : Edit(v)
  \/ Submit
  \/ \E r \in 1..Len(reqs) : \E resp \in Responses(r) : ResponseHead(r, resp)
  \/ \E r \in 1..Len(reqs) : BodyRead(r)
  \/ \E r \in 1..Len(reqs) : NetworkFailure(r)
  \/ \E r \in 1..Len(reqs) : AbortedFetch(r)
  \/ \E r \in 1..Len(reqs) : AbortedBody(r)

Spec == Init /\ [][Next]_vars

\* What the event loop owes the view: the effect after the first render and
\* after a change of searchParams, the settling of a network call or of a
\* body read, and the resumption of the handler of an aborted request.
Progress ==
  \/ \E r \in 1..Len(reqs) :
       \/ \E resp \in Responses(r) : ResponseHead(r, resp)
       \/ NetworkFailure(r)
       \/ BodyRead(r)
       \/ AbortedFetch(r)
       \/ AbortedBody(r)
  \/ Mount
  \/ UrlEffect

\* a ready task is eventually run
Fairness == WF_vars(Progress)

SpecLive == Spec /\ Fairness

\* --------------------------------------- the pure functions on their own
RawValues == {Str(<<>>), Str(S0), Str(S5), Str(S45), Str(S7), Str(SNeg1),
              Str(SAbc), Str(<<" ", "3">>), Fin(30), Fin(0)}
RawForms == [FieldSet -> RawValues]

NumValues == {Undef, Fin(0), Fin(5), Fin(45), Fin(50), Fin(1000), Fin(3000),
              Fin(-10), NaN, PosInf}
FilterSets == [FieldSet -> NumValues]

CodecQueries ==
  { <<>>,
    << <<"page", <<"2">> >> >>,
    << <<"rating", SAbc>>, <<"sort", <<"a">> >>, <<"rating", S3>>,
       <<"priceMax", S100>>, <<"sort", <<"b">> >> >> }

InitCodec ==
  /\ mounted = "no" /\ url = <<>> /\ searchParams = <<>>
  /\ formValues = NoValues /\ formErrors = NoErrors /\ formTouched = FALSE
  /\ hotels = <<>> /\ loading = TRUE /\ error = Null /\ apiError = Null
  /\ abortRef = 0 /\ reqs = <<>>
  /\ \/ cRaw \in RawForms /\ cF = NoValues /\ cCur = <<>>
     \/ cRaw = NoValues /\ cF \in FilterSets /\ cCur \in CodecQueries
  /\ cValid = <<>> /\ cQuery = <<>> /\ cDecoded = <<>>
  /\ qF = NoValues /\ qQuery = <<>>
  /\ qUrl = <<>> /\ qDecoded = <<>> /\ qResp = <<>>
  /\ RegIdle

Validate ==
  /\ cValid = <<>>
  /\ cValid' = <<filterSchema(cRaw)>>
  /\ UNCHANGED <<viewVars, cRaw, cF, cCur, cQuery, cDecoded, requestVars, registerVars>>

Encode ==
  /\ cQuery = <<>>
  /\ cQuery' = <<buildQueryFromFilters(cCur, cF)>>
  /\ UNCHANGED <<viewVars, cRaw, cF, cCur, cValid, cDecoded, requestVars, registerVars>>

Decode ==
  /\ cQuery # <<>> /\ cDecoded = <<>>
  /\ cDecoded' = <<filtersFromParams(cQuery[1])>>
  /\ UNCHANGED <<viewVars, cRaw, cF, cCur, cValid, cQuery, requestVars, registerVars>>

NextCodec == Validate \/ Encode \/ Decode

SpecCodec == InitCodec /\ [][NextCodec]_vars

\* ------------------------------------------------- GET /api/hotels
PriceMinMessage == "priceMin must be a valid number."
PriceMaxMessage == "priceMax must be a valid number."

\* searchParams.get(k) !== null ? Number(...) : undefined
ParamNumber(q, key) ==
  LET v == SPGet(q, key)
  IN IF v.k = "null" THEN Undef ELSE StringToNumber(v.s)

Status400(msg) == [status |-> 400, body |-> BodyObject(msg, FALSE, NoFE), db |-> FALSE]

\* rows of the hotel table: rating and pricePerNight, in tenths
DbHotels == << [n |-> 1, rating |-> 45, price |-> 1000],
               [n |-> 2, rating |-> 30, price |-> 3000] >>

\* prismadb.hotel.findMany({ where }): pricePerNight gte/lte, rating gte
FindMany(rating, priceMin, priceMax) ==
  SelectSeq(DbHotels, LAMBDA h :
    /\ priceMin.k = "undefined" \/ Le(priceMin, Fin(h.price))
    /\ priceMax.k = "undefined" \/ Le(Fin(h.price), priceMax)
    /\ rating.k = "undefined" \/ Le(rating, Fin(h.rating)))

\* the GET handler on the query q; dbOk = findMany does not throw.  db tells
\* whether the database was queried.
GET(q, dbOk) ==
  LET rating == ParamNumber(q, "rating")
      priceMin == ParamNumber(q, "priceMin")
      priceMax == ParamNumber(q, "priceMax")
  IN IF SPGet(q, "rating").k # "null"
        /\ (rating.k = "nan" \/ Lt(rating, Fin(0)) \/ Gt(rating, Fin(50)))
       THEN Status400(RatingMessage)
     ELSE IF SPGet(q, "priceMin").k # "null" /\ priceMin.k = "nan"
       THEN Status400(PriceMinMessage)
     ELSE IF SPGet(q, "priceMax").k # "null" /\ priceMax.k = "nan"
       THEN Status400(PriceMaxMessage)
     ELSE IF priceMin.k # "undefined" /\ priceMax.k # "undefined" /\ Gt(priceMin, priceMax)
       THEN Status400(CrossFieldMessage)
     ELSE IF dbOk
       THEN [status |-> 200, db |-> TRUE,
             body |-> BodyArray([i \in 1..Len(FindMany(rating, priceMin, priceMax)) |->
                        Item(0, FindMany(rating, priceMin, priceMax)[i].n, TRUE)])]
     ELSE [status |-> 500, body |-> BodyObject(ServerMessage, FALSE, NoFE), db |-> TRUE]

\* ------------------------------- buildUrl, decode and GET on their own
Missing == JSNull
ParamValues == {Missing, Str(<<>>), Str(SAbc), Str(InfinityChars), Str(S0),
                Str(S3), Str(SNeg1), Str(S7)}

\* the query ?sort=a&rating=..&priceMin=..&priceMax=.. with the missing keys left out
RECURSIVE QueryOf(_, _)
QueryOf(vals, i) ==
  IF i > Len(Fields) THEN <<>>
  ELSE (IF vals[Fields[i]].k = "null" THEN <<>>
        ELSE << <<Fields[i], vals[Fields[i]].s>> >>) \o QueryOf(vals, i + 1)

RequestQueries ==
  CodecQueries \cup
  { << <<"sort", <<"a">> >> >> \o QueryOf(vals, 1) : vals \in [FieldSet -> ParamValues] }

InitRequest ==
  /\ mounted = "no" /\ url = <<>> /\ searchParams = <<>>
  /\ formValues = NoValues /\ formErrors = NoErrors /\ formTouched = FALSE
  /\ hotels = <<>> /\ loading = TRUE /\ error = Null /\ apiError = Null
  /\ abortRef = 0 /\ reqs = <<>>
  /\ cRaw = NoValues /\ cF = NoValues /\ cCur = <<>>
  /\ cValid = <<>> /\ cQuery = <<>> /\ cDecoded = <<>>
  /\ \/ qF \in FilterSets /\ qQuery = <<>>
     \/ qF = NoValues /\ qQuery \in RequestQueries
  /\ qUrl = <<>> /\ qDecoded = <<>> /\ qResp = <<>>
  /\ RegIdle

BuildUrl ==
  /\ qUrl = <<>>
  /\ qUrl' = <<buildUrl(qF)>>
  /\ UNCHANGED <<viewVars, cRaw, cF, cCur, cValid, cQuery, cDecoded,
                 qF, qQuery, qDecoded, qResp, registerVars>>

DecodeQuery ==
  /\ qDecoded = <<>>
  /\ qDecoded' = <<filtersFromParams(qQuery)>>
  /\ UNCHANGED <<viewVars, cRaw, cF, cCur, cValid, cQuery, cDecoded,
                 qF, qQuery, qUrl, qResp, registerVars>>

Backend(dbOk) ==
  /\ qResp = <<>>
  /\ qResp' = <<GET(qQuery, dbOk)>>
  /\ UNCHANGED <<viewVars, cRaw, cF, cCur, cValid, cQuery, cDecoded,
                 qF, qQuery, qUrl, qDecoded, registerVars>>

NextRequest == BuildUrl \/ DecodeQuery \/ \E dbOk \in BOOLEAN : Backend(dbOk)

SpecRequest == InitRequest /\ [][NextRequest]_vars

\* ------------------------------------------------- the register page
MaxRegReqs == 3

\* response bodies of POST /api/auth/register as res.json() gives them
RegObject(err, msg) == [kind |-> "object", error |-> err, message |-> msg]
RegEmpty == RegObject(Null, Null)
RegNotObject == [kind |-> "other", error |-> Null, message |-> Null]
RegUnparseable == [kind |-> "unparseable", error |-> Null, message |-> Null]

RegResponses ==
  { [status |-> 201, body |-> RegObject(Null, "User registered successfully")],
    [status |-> 409, body |-> RegObject("User with this email or username already exists.", Null)],
    [status |-> 500, body |-> RegUnparseable],
    [status |-> 200, body |-> RegNotObject] }

RegSuccessMessage == "Registration successful! Redirecting..."
RegFormatMessage == "Invalid server response format"
RegMismatchMessage == "Passwords do not match"

RegHttpMessage(status) ==
  CASE status = 409 -> "Registration failed (HTTP 409)"
    [] status = 500 -> "Registration failed (HTTP 500)"
    [] OTHER -> "Registration failed (HTTP ?)"

\* what the user may have typed: matching and non-matching passwords, the
\* other fields filled in
RegForms ==
  { [password |-> "secret1", confirmPassword |-> "secret1"],
    [password |-> "secret1", confirmPassword |-> "secret2"] }

\* registerFrontendSchema: the refinement on the two passwords
registerFrontendSchema(data) == data.password = data.confirmPassword

\* the state the handler of a submission writes to
RegDisplay == [apiError |-> regApiError, apiSuccess |-> regApiSuccess,
               loading |-> regLoading, timers |-> regTimers]

SetRegDisplay(d) ==
  /\ regApiError' = d.apiError
  /\ regApiSuccess' = d.apiSuccess
  /\ regLoading' = d.loading
  /\ regTimers' = d.timers

RegNewRequest == [aborted |-> FALSE, phase |-> "fetch", status |-> 0, body |-> RegEmpty]

\* cancelPending of the register page
regCancelPending(rs, ref) ==
  IF ref # 0 THEN [reqs |-> [rs EXCEPT ![ref].aborted = TRUE], abortRef |-> 0]
  ELSE [reqs |-> rs, abortRef |-> ref]

\* res.json() inside its own try/catch: {} when the body does not parse
RegJson(body) == IF body.kind = "unparseable" THEN RegEmpty ELSE body

\* onSubmit from the line after res.json() to the end of the finally block
AfterRegResponse(d, status, json) ==
  IF json.kind # "object"
    THEN [d EXCEPT !.apiError = RegFormatMessage, !.loading = FALSE]
  ELSE IF ~IsOk(status)
    THEN [d EXCEPT !.apiError = IF json.error # Null THEN json.error
                                ELSE IF json.message # Null THEN json.message
                                ELSE RegHttpMessage(status),
                   !.loading = FALSE]
  ELSE [d EXCEPT !.apiSuccess = RegSuccessMessage, !.timers = d.timers + 1,
                 !.loading = FALSE]

RegMicrotaskPending ==
  \E r \in 1..Len(regReqs) : regReqs[r].aborted /\ regReqs[r].phase # "done"

InitRegister ==
  /\ mounted = "no" /\ url = <<>> /\ searchParams = <<>>
  /\ formValues = NoValues /\ formErrors = NoErrors /\ formTouched = FALSE
  /\ hotels = <<>> /\ loading = TRUE /\ error = Null /\ apiError = Null
  /\ abortRef = 0 /\ reqs = <<>>
  /\ cRaw = NoValues /\ cF = NoValues /\ cCur = <<>>
  /\ cValid = <<>> /\ cQuery = <<>> /\ cDecoded = <<>>
  /\ qF = NoValues /\ qQuery = <<>>
  /\ qUrl = <<>> /\ qDecoded = <<>> /\ qResp = <<>>
  /\ RegIdle

RegOther == <<viewVars, cRaw, cF, cCur, cValid, cQuery, cDecoded, requestVars>>

\* form.handleSubmit(onSubmit) through the enabled submit button: validate,
\* then onSubmit up to its first await
RegSubmit(data) ==
  /\ regPath = "/register" /\ ~regDisabled /\ ~RegMicrotaskPending
  /\ Len(regReqs) < MaxRegReqs
  /\ IF registerFrontendSchema(data)
       THEN LET c == regCancelPending(regReqs, regAbortRef)
            IN /\ regFormError' = ""
               /\ regApiError' = Null /\ regApiSuccess' = Null /\ regLoading' = TRUE
               /\ regReqs' = Append(c.reqs, RegNewRequest)
               /\ regAbortRef' = Len(regReqs) + 1
       ELSE /\ regFormError' = RegMismatchMessage
            /\ UNCHANGED <<regApiError, regApiSuccess, regLoading, regReqs, regAbortRef>>
  /\ UNCHANGED <<regPath, regDisabled, regTimers, RegOther>>

\* React commits the render of the state set after an await: the button
\* takes disabled={loading}
RegCommit ==
  /\ regPath = "/register" /\ ~RegMicrotaskPending
  /\ regDisabled # regLoading
  /\ regDisabled' = regLoading
  /\ UNCHANGED <<regPath, regFormError, regApiError, regApiSuccess, regLoading,
                 regAbortRef, regReqs, regTimers, RegOther>>

RegLive(r) == regReqs[r].phase # "done" /\ ~regReqs[r].aborted

RegResponseHead(r, resp) ==
  /\ ~RegMicrotaskPending
  /\ regReqs[r].phase = "fetch" /\ RegLive(r)
  /\ regReqs' = [regReqs EXCEPT ![r].phase = "body", ![r].status = resp.status,
                                ![r].body = resp.body]
  /\ UNCHANGED <<regPath, regFormError, regApiError, regApiSuccess, regLoading,
                 regDisabled, regAbortRef, regTimers, RegOther>>

RegBodyRead(r) ==
  /\ ~RegMicrotaskPending
  /\ regReqs[r].phase = "body" /\ RegLive(r)
  /\ SetRegDisplay(AfterRegResponse(RegDisplay, regReqs[r].status, RegJson(regReqs[r].body)))
  /\ regReqs' = [regReqs EXCEPT ![r].phase = "done"]
  /\ UNCHANGED <<regPath, regFormError, regDisabled, regAbortRef, RegOther>>

\* fetch() rejects (network down): catch, then finally
RegNetworkFailure(r) ==
  /\ ~RegMicrotaskPending
  /\ regReqs[r].phase = "fetch" /\ RegLive(r)
  /\ SetRegDisplay([RegDisplay EXCEPT !.apiError = FailedToFetch, !.loading = FALSE])
  /\ regReqs' = [regReqs EXCEPT ![r].phase = "done"]
  /\ UNCHANGED <<regPath, regFormError, regDisabled, regAbortRef, RegOther>>

\* aborted while fetch() was pending: the catch returns, the finally runs
RegAbortedFetch(r) ==
  /\ regReqs[r].aborted /\ regReqs[r].phase = "fetch"
  /\ SetRegDisplay([RegDisplay EXCEPT !.loading = FALSE])
  /\ regReqs' = [regReqs EXCEPT ![r].phase = "done"]
  /\ UNCHANGED <<regPath, regFormError, regDisabled, regAbortRef, RegOther>>

\* aborted while res.json() was pending: the inner catch takes the
\* AbortError, json = {}, and the handler goes on
RegAbortedBody(r) ==
  /\ regReqs[r].aborted /\ regReqs[r].phase = "body"
  /\ SetRegDisplay(AfterRegResponse(RegDisplay, regReqs[r].status, RegEmpty))
  /\ regReqs' = [regReqs EXCEPT ![r].phase = "done"]
  /\ UNCHANGED <<regPath, regFormError, regDisabled, regAbortRef, RegOther>>

\* setTimeout(() => router.push("/login"), 3000) fires
RegRedirect ==
  /\ ~RegMicrotaskPending
  /\ regTimers > 0
  /\ regTimers' = regTimers - 1
  /\ regPath' = "/login"
  /\ UNCHANGED <<regFormError, regApiError, regApiSuccess, regLoading, regDisabled,
                 regAbortRef, regReqs, RegOther>>

NextRegister ==
  \/ \E data \in RegForms : RegSubmit(data)
  \/ RegCommit
  \/ \E r \in 1..Len(regReqs) : \E resp \in RegResponses : RegResponseHead(r, resp)
  \/ \E r \in 1..Len(regReqs) : RegBodyRead(r)
  \/ \E r \in 1..Len(regReqs) : RegNetworkFailure(r)
  \/ \E r \in 1..Len(regReqs) : RegAbortedFetch(r)
  \/ \E r \in 1..Len(regReqs) : RegAbortedBody(r)
  \/ RegRedirect

SpecRegister == InitRegister /\ [][NextRegister]_vars

\* ================================================================ claims
DisplayVars == <<hotels, loading, error, apiError, formErrors>>

\* request r's handler runs to its end in this step
Completes(r) == reqs[r].phase # "done" /\ reqs'[r].phase = "done"

Quiescent == \A r \in 1..Len(reqs) : reqs[r].phase = "done"

\* C1: a request whose signal was aborted (superseded or torn down) before
\* its handler finished changes none of hotels, loading, error, apiError and
\* the field errors when that handler finishes.
C1_DiscardIsSilent ==
  [][\A r \in 1..Len(reqs) :
       (reqs[r].aborted /\ Completes(r)) => UNCHANGED DisplayVars]_vars

\* C2: whenever a non-empty payload is written to the hotels list, it is the
\* payload of the most recently issued request, never that of an earlier one.
C2_AtMostOneWinner ==
  [][(hotels' # hotels /\ hotels' # <<>>) =>
       \A i \in 1..Len(hotels') : hotels'[i].src = Len(reqs)]_vars

\* C2 witness: request 1 had received a 200 response head when request 2
\* superseded it, and the payload on display is that of request 2.
C2_Witness ==
  /\ Len(reqs) = 2
  /\ reqs[1].aborted /\ reqs[1].phase = "done" /\ reqs[1].status = 200
  /\ hotels # <<>> /\ hotels[1].src = 2

\* what a request alone leaves on display, from the state fetchHotels resets to
Outcome(rq) ==
  LET cleared == [hotels |-> <<>>, loading |-> TRUE, error |-> Null,
                  apiError |-> Null, formErrors |-> NoErrors]
  IN IF rq.netfail THEN AfterNetworkFailure(cleared)
     ELSE AfterResponse(cleared, rq.status, JsonData(rq.body))

\* C3: with the view mounted, no request in flight and no local submit since
\* the last request was issued, the hotels list, both operational messages
\* and the field errors are exactly the outcome of the last issued request.
C3_LatestWinsAtQuiescence ==
  (mounted = "yes" /\ reqs # <<>> /\ Quiescent /\ ~formTouched) =>
    LET o == Outcome(reqs[Len(reqs)])
    IN /\ hotels = o.hotels
       /\ error = o.error
       /\ apiError = o.apiError
       /\ formErrors = o.formErrors

\* C4: at most one request is in flight with a non-aborted signal, and it is
\* the one whose controller abortRef holds (every earlier one was aborted
\* before the new fetch() was started).
C4_SingleLiveToken ==
  /\ Cardinality({r \in 1..Len(reqs) : Live(r)}) <= 1
  /\ \A r \in 1..Len(reqs) : Live(r) => abortRef = r

\* C4 witness: request 2 has just been issued while request 1 was still in
\* flight; request 1 is aborted, request 2 is the live one.
C4_Witness ==
  /\ Len(reqs) = 2
  /\ reqs[1].aborted /\ reqs[1].phase # "done"
  /\ Live(2) /\ reqs[2].phase = "fetch"

\* C5: once the view is torn down, no step changes hotels, loading, error,
\* apiError or the field errors.
C5_TeardownSafety == [][mounted = "gone" => UNCHANGED DisplayVars]_vars

\* the memo of lines 242-245; !error holds for null and for ""
showEmpty == ~loading /\ error \in {Null, ""} /\ Len(hotels) = 0

\* C6: the empty state is never shown while loading, nor while either
\* operational message (error, apiError) is set.
C6_EmptyStateExclusive ==
  showEmpty => (~loading /\ error = Null /\ apiError = Null)

\* the number a raw form value stands for (Undef for "" and undefined)
RawNumber(raw) ==
  IF raw.k = "undefined" \/ (raw.k = "str" /\ raw.s = <<>>) THEN Undef
  ELSE ToNumber(raw)

BothDefined(raw) ==
  /\ RawNumber(raw.priceMin).k \in {"num", "inf"}
  /\ RawNumber(raw.priceMax).k \in {"num", "inf"}

\* C7: when priceMin and priceMax are both defined numbers, 0 included, and
\* priceMin > priceMax, filterSchema fails with an error on priceMax; when
\* both are defined and priceMin <= priceMax, the cross-field error is absent.
C7_CrossFieldValidation ==
  (cValid # <<>> /\ BothDefined(cRaw)) =>
    LET lo == RawNumber(cRaw.priceMin)
        hi == RawNumber(cRaw.priceMax)
    IN /\ Gt(lo, hi) => (~cValid[1].ok /\ cValid[1].errors.priceMax # "")
       /\ Le(lo, hi) => cValid[1].errors.priceMax # CrossFieldMessage

FieldChannel == \E f \in FieldSet : formErrors[f] # ""
OperationalChannel == error # Null \/ apiError # Null

\* the response of a finished request is a failure
Failing(rq) ==
  rq.netfail \/ ~IsOk(rq.status) \/ ~ShapeOk(JsonData(rq.body))

\* C8: when a non-aborted request finishes with a failing outcome, then right
\* after it exactly one of the two channels is populated: a field error, or an
\* operational message (error or apiError).
C8_ExactlyOneErrorChannel ==
  [][\A r \in 1..Len(reqs) :
       (Live(r) /\ Completes(r) /\ Failing(reqs'[r])) =>
         (FieldChannel' # OperationalChannel')]_vars

\* a FilterSet of the data model: every present field a finite number in range
ValidFilterSet(f) ==
  /\ \A k \in FieldSet : f[k].k \in {"undefined", "num"}
  /\ f.rating.k = "num" => (f.rating.v >= 0 /\ f.rating.v <= 50)
  /\ f.priceMin.k = "num" => f.priceMin.v >= 0
  /\ f.priceMax.k = "num" => f.priceMax.v >= 0
  /\ (f.priceMin.k = "num" /\ f.priceMax.k = "num") => f.priceMin.v <= f.priceMax.v

\* C9: decoding the encoding, into an empty query, of a valid FilterSet gives
\* that FilterSet back, field by field.
C9_RoundTrip ==
  (cDecoded # <<>> /\ cCur = <<>> /\ ValidFilterSet(cF)) => cDecoded[1] = cF

\* C9 witness: a round trip was made with one field 4.5, one field 0 and one
\* field absent.
C9_Witness ==
  /\ cDecoded # <<>> /\ cCur = <<>>
  /\ cF = [rating |-> Fin(45), priceMin |-> Fin(0), priceMax |-> Undef]

\* the pairs of a query whose key is not one of the three filter keys
Others(q) == SelectSeq(q, LAMBDA kv : kv[1] \notin FieldSet)

\* C10: no step changes the unrelated parameters of the URL: a submission
\* rewrites only rating, priceMin and priceMax.
C10_Preservation == [][Others(url') = Others(url)]_vars

\* C10 witness: a submission has replaced the query of a URL that carries an
\* unrelated parameter.
C10_Witness ==
  /\ mounted = "yes" /\ url # searchParams
  /\ Others(url) # <<>>

\* C11: for each of rating, priceMin, priceMax the encoded query carries the
\* key, with the serialized value, exactly when the filter field is a finite
\* number; for an absent, NaN or infinite field the key is not in the query.
C11_EncodeSetRemove ==
  cQuery # <<>> =>
    \A k \in FieldSet :
      IF cF[k].k = "num"
        THEN SPGet(cQuery[1], k) = Str(NumberToString(cF[k]))
        ELSE SPGet(cQuery[1], k) = JSNull

\* the pairs of a query whose key is one of the three filter keys
FilterPairs(q) == SelectSeq(q, LAMBDA kv : kv[1] \in FieldSet)

\* C12: decoding any query gives, per key, a finite number or absent; a
\* missing key, an empty value and a value whose Number() is not finite give
\* absent; and the result depends on the three filter keys only.
C12_PermissiveDecode ==
  qDecoded # <<>> =>
    /\ \A k \in FieldSet :
         LET v == SPGet(qQuery, k)
             d == qDecoded[1][k]
         IN /\ d.k \in {"undefined", "num"}
            /\ (v.k = "null" \/ v.s = <<>> \/ StringToNumber(v.s).k # "num") => d = Undef
    /\ qDecoded[1] = filtersFromParams(FilterPairs(qQuery))

\* C12 witness: a query with rating=Infinity, priceMin=abc and priceMax=3
\* next to an unrelated key has been decoded.
C12_Witness ==
  /\ qDecoded # <<>>
  /\ SPGet(qQuery, "rating") = Str(InfinityChars)
  /\ SPGet(qQuery, "priceMin") = Str(SAbc)
  /\ SPGet(qQuery, "priceMax") = Str(S3)
  /\ Others(qQuery) # <<>>
  /\ qDecoded[1].priceMax = Fin(30)

Ordered(f) ==
  (f.priceMin.k # "undefined" /\ f.priceMax.k # "undefined") => Le(f.priceMin, f.priceMax)

\* C14: the FilterSet decoded from the URL the view shows, and the FilterSet
\* of every request handed to fetchHotels, have priceMin <= priceMax when both
\* are present.
C14_FilterSetInvariant ==
  /\ mounted = "yes" => Ordered(filtersFromParams(searchParams))
  /\ \A r \in 1..Len(reqs) : reqs[r].phase # "done" => Ordered(reqs[r].filters)

\* C15: a submission whose values fail filterSchema leaves the URL and the
\* query the effect saw unchanged and issues no request.
C15_LocalValidationBlocksNetwork ==
  [][(Submit /\ ~filterSchema(formValues).ok) =>
       (url' = url /\ searchParams' = searchParams /\ reqs' = reqs /\ abortRef' = abortRef)]_vars

\* C15 witness: a rejected submission has written its field errors, and the
\* URL differs from what onSubmit would have written.
C15_Witness ==
  /\ formTouched
  /\ ~filterSchema(formValues).ok
  /\ formErrors = filterSchema(formValues).errors
  /\ url = searchParams
  /\ url # buildQueryFromFilters(searchParams, filterSchema(formValues).data)

\* the request was issued for filters with priceMin > priceMax
CrossFieldRequest(r) ==
  LET f == reqs[r].filters
  IN f.priceMin.k = "num" /\ f.priceMax.k = "num" /\ Gt(f.priceMin, f.priceMax)

\* the response in hand is the one GET gives to the request's query
BackendAnswered(r) ==
  LET a == GET(reqs[r].query, TRUE)
  IN reqs[r].status = a.status /\ reqs[r].body = a.body

\* C16: when a request sent for priceMin > priceMax gets the backend's answer
\* and that answer is applied, the status is non-OK, priceMax carries the
\* cross-field message, hotels is empty, and error and apiError are both null.
C16_CrossFieldEndToEnd ==
  [][\A r \in 1..Len(reqs) :
       (BodyRead(r) /\ CrossFieldRequest(r) /\ BackendAnswered(r)) =>
         /\ ~IsOk(reqs[r].status)
         /\ formErrors'.priceMax = CrossFieldMessage
         /\ hotels' = <<>>
         /\ error' = Null
         /\ apiError' = Null]_vars

\* the body is unparseable, is not an array, or has an element that is not
\* ResultItem-shaped
BadShape(body) ==
  \/ body.kind # "array"
  \/ \E i \in 1..Len(body.items) : ~body.items[i].shape

\* the message as the specification words it
SpecShapeMessage == "Invalid response shape"

\* C17 as stated: applying an OK response whose body is unparseable, not an
\* array or has a malformed element sets error to "Invalid response shape"
\* and empties hotels.
C17_AllOrNothingAsStated ==
  [][\A r \in 1..Len(reqs) :
       (BodyRead(r) /\ IsOk(reqs[r].status) /\ BadShape(reqs[r].body)) =>
         (error' = SpecShapeMessage /\ hotels' = <<>>)]_vars

\* C17: applying an OK response whose body is unparseable, not an array or
\* has a malformed element sets error to "Invalid response shape from
\* /api/hotels" and empties hotels, so no element of the payload is shown.
C17_AllOrNothing ==
  [][\A r \in 1..Len(reqs) :
       (BodyRead(r) /\ IsOk(reqs[r].status) /\ BadShape(reqs[r].body)) =>
         (error' = "Invalid response shape from /api/hotels" /\ hotels' = <<>>)]_vars

\* C17 witness: the latest request was answered 200 with an array holding a
\* malformed element, and its handler has run.
C17_Witness ==
  /\ abortRef # 0
  /\ reqs[abortRef].phase = "done" /\ ~reqs[abortRef].aborted
  /\ reqs[abortRef].status = 200
  /\ reqs[abortRef].body.kind = "array"
  /\ BadShape(reqs[abortRef].body)
  /\ error = InvalidShapeMessage /\ hotels = <<>>

\* a 422 whose body carries details.fieldErrors
FieldErrorResponse(r) ==
  reqs[r].status = 422 /\ reqs[r].body.kind = "object" /\ reqs[r].body.hasFE

\* C20: applying a 422 with per-field details makes the first message of each
\* field that has one that field's error, gives the other fields no error,
\* writes neither error nor apiError, and empties hotels.
C20_FieldErrorMapping ==
  [][\A r \in 1..Len(reqs) :
       (BodyRead(r) /\ FieldErrorResponse(r)) =>
         /\ \A f \in FieldSet :
              IF reqs[r].body.fe[f] # <<>>
                THEN formErrors'[f] = Head(reqs[r].body.fe[f])
                ELSE formErrors'[f] = formErrors[f]
         /\ error' = error /\ apiError' = apiError
         /\ hotels' = <<>>]_vars

\* C20 witness: the latest request was answered 422 with two messages for
\* rating, one for priceMax and none for priceMin, and its handler has run.
C20_Witness ==
  /\ abortRef # 0
  /\ reqs[abortRef].phase = "done" /\ ~reqs[abortRef].aborted
  /\ FieldErrorResponse(abortRef)
  /\ Len(reqs[abortRef].body.fe.rating) = 2
  /\ formErrors.rating = reqs[abortRef].body.fe.rating[1]
  /\ formErrors.priceMax = reqs[abortRef].body.fe.priceMax[1]
  /\ formErrors.priceMin = ""
  /\ hotels = <<>>

\* the value of key k is present and is not a number >= 0
BadPrice(q, k) ==
  SPGet(q, k).k # "null" /\ (ParamNumber(q, k).k = "nan" \/ Lt(ParamNumber(q, k), Fin(0)))

\* the value of rating is present and is not a number in [0, 5]
BadRating(q) ==
  /\ SPGet(q, "rating").k # "null"
  /\ \/ ParamNumber(q, "rating").k = "nan"
     \/ Lt(ParamNumber(q, "rating"), Fin(0))
     \/ Gt(ParamNumber(q, "rating"), Fin(50))

\* both prices are present and priceMin > priceMax
BadOrder(q) ==
  /\ SPGet(q, "priceMin").k # "null" /\ SPGet(q, "priceMax").k # "null"
  /\ Gt(ParamNumber(q, "priceMin"), ParamNumber(q, "priceMax"))

\* the answer reports a validation failure
ValidationFailure(resp) == resp.status \in {400, 422}

\* C18: GET answers a validation failure without querying the database when
\* rating is not a number in [0,5], a price is not a number >= 0 or
\* priceMin > priceMax; every other request queries the database and, unless
\* the database fails, gets the hotel array.
C18_BackendValidationCoverage ==
  qResp # <<>> =>
    IF BadRating(qQuery) \/ BadPrice(qQuery, "priceMin") \/ BadPrice(qQuery, "priceMax")
         \/ BadOrder(qQuery)
      THEN ValidationFailure(qResp[1]) /\ ~qResp[1].db
      ELSE /\ qResp[1].db
           /\ \/ qResp[1].status = 200 /\ qResp[1].body.kind = "array"
              \/ qResp[1].status = 500

\* C19: every validation failure of GET has status 422 and a body with
\* details.fieldErrors holding a message for at least one field.
C19_BackendValidationShape ==
  (qResp # <<>> /\ ValidationFailure(qResp[1])) =>
    /\ qResp[1].status = 422
    /\ qResp[1].body.hasFE
    /\ \E f \in FieldSet : qResp[1].body.fe[f] # <<>>

\* the request in abortRef is issued and its handler has not run
CurrentInFlight ==
  abortRef # 0 /\ reqs[abortRef].phase # "done" /\ ~reqs[abortRef].aborted

\* C21: from the issuance of the current request to its completion no
\* operational message is shown, and no field error either unless a local
\* submission wrote one since the issuance.
C21_ErrorsClearAtIssuance ==
  CurrentInFlight =>
    /\ error = Null
    /\ apiError = Null
    /\ (~formTouched => formErrors = NoErrors)

\* C22: an accepted submission writes the encoding of the submitted values to
\* the URL, issues no request itself, and leaves the URL different from the
\* query the effect last saw, so that the URL-change effect runs and issues
\* the fetch for the submitted filters.
C22_SubmitToFetchLoop ==
  [][(Submit /\ filterSchema(formValues).ok) =>
       /\ url' = buildQueryFromFilters(searchParams, filterSchema(formValues).data)
       /\ reqs' = reqs /\ abortRef' = abortRef
       /\ url' # searchParams']_vars

\* C23: from some point on every issued request has had its handler run to
\* the end and loading is false.
C23_Termination == <>[](Quiescent /\ ~loading)

\* C23 witness: two requests were issued in a mounted view, one cancelled by
\* the other, both handlers have run and loading is false.
C23_Witness ==
  /\ mounted = "yes"
  /\ Len(reqs) >= 2
  /\ Quiescent
  /\ ~loading

\* the four blocks of the render below the form
ViewLoading == loading
ViewError == error # Null
ViewPopulated == ~loading /\ error = Null /\ Len(hotels) > 0

\* how many of the four blocks are rendered
ViewsRendered ==
  Cardinality({v \in {"loading", "error", "empty", "populated"} :
     \/ v = "loading" /\ ViewLoading
     \/ v = "error" /\ ViewError
     \/ v = "empty" /\ showEmpty
     \/ v = "populated" /\ ViewPopulated})

\* C24: exactly one of loading, error, empty and populated is rendered; loading
\* and a non-null error never hold together; the cards are rendered neither
\* while loading nor while error is set.
C24_ViewStateExclusivity ==
  /\ ViewsRendered = 1
  /\ ~(loading /\ error # Null)
  /\ ViewPopulated => (~loading /\ error = Null)

\* C24 witness: the current request is in flight and the handler of a
\* cancelled one has written an operational error; only the error block shows.
C24_Witness ==
  /\ CurrentInFlight
  /\ error # Null
  /\ ~loading
  /\ ViewsRendered = 1

\* C25: while the most recently issued request of a mounted view is in
\* flight, loading is true.
C25_LoadingTracksLiveRequest ==
  (mounted = "yes" /\ CurrentInFlight) => loading

\* in a mounted view the form values are the decoding of the URL and the
\* current request was issued for those same filters
Agreement ==
  mounted = "yes" =>
    /\ formValues = filtersFromParams(url)
    /\ abortRef # 0
    /\ reqs[abortRef].filters = formValues
    /\ reqs[abortRef].query = buildUrl(formValues)

\* C26: each run of the effect (on mount and after a URL change) leaves the
\* form values, the URL and the filters of the request it issues in
\* agreement, and the agreement lasts until the user edits the form or the
\* URL changes again.
C26_UrlIsSourceOfTruth ==
  [][/\ (Mount \/ UrlEffect) => (searchParams' = url' /\ Agreement')
     /\ (Agreement /\ url' = url /\ ~(\E v \in FormInputs : Edit(v))) => Agreement']_vars

\* C26 witness: after a URL change the effect has run a second time for a
\* query with a filter in it, and form, URL and request agree.
C26_Witness ==
  /\ mounted = "yes"
  /\ Len(reqs) = 2
  /\ searchParams = url
  /\ formValues # NoValues
  /\ Agreement

\* a later submission's request is in flight
RegLaterInFlight(r) ==
  \E l \in (r + 1)..Len(regReqs) : regReqs[l].phase # "done" /\ ~regReqs[l].aborted

\* C27: the handler of a register request aborted by a later submission
\* writes neither apiError nor apiSuccess, schedules no redirect, and does
\* not set loading to false while the later request is in flight.
C27_RegisterCancelIsSilent ==
  [][\A r \in 1..Len(regReqs) :
       (RegAbortedFetch(r) \/ RegAbortedBody(r)) =>
         /\ regApiError' = regApiError
         /\ regApiSuccess' = regApiSuccess
         /\ regTimers' = regTimers
         /\ RegLaterInFlight(r) => regLoading' = regLoading]_vars

====
